---- MODULE Spec2Model ----
(***************************************************************************)
(* Model of the candle (OHLCV) converter of freqtrade                      *)
(* (freqtrade/data/converter/converter.py): the candle normalizer          *)
(* (ohlcv_to_dataframe, clean_ohlcv_dataframe, ohlcv_fill_up_missing_data),*)
(* the trimming operations (trim_dataframe, trim_dataframes) and the two   *)
(* footprint reducers (reduce_mem_usage, reduce_dataframe_footprint) and   *)
(* the format conversion (convert_ohlcv_format); and of the recursive bias *)
(* analysis (freqtrade/optimize/recursive_analysis.py, RecursiveAnalysis). *)
(*                                                                         *)
(* Time is counted in abstract ticks; a timeframe is a number of ticks.    *)
(* All timestamps of one run lie in one day, so the resampling origin      *)
(* (midnight of the first day) is tick 0.                                  *)
(***************************************************************************)
EXTENDS Integers, Sequences, FiniteSets, TLC

\* ---------------------------------------------------------------- bounds
\* longest list of raw rows handed to the normalizer
MaxRows == 3
\* largest raw timestamp (ticks)
MaxTs == 5
\* largest raw price / volume
MaxVal == 2
\* ticks per candle of the fixed-duration timeframe under test
TimeframeTicks == 2
\* latest date (ticks) of an analysed frame handed to the trimming
MaxDate == 2
\* largest startup-candle count handed to the trimming
MaxStartup == 2
\* most rows of a frame handed to a footprint reducer
MaxColLen == 2
\* most startup-candle values configured for one analysis
MaxPartials == 2
\* most calls of start() on one RecursiveAnalysis instance
MaxStarts == 2
\* most data files in the source format before a conversion
MaxTriples == 3

VARIABLES
    \* --- candle normalizer
    raw,             \* the raw rows handed to ohlcv_to_dataframe
    fill_missing,    \* flag of the last normalisation
    drop_incomplete, \* flag of the last normalisation
    grouped,         \* the table after the groupby of clean_ohlcv_dataframe
    cleaned,         \* the table returned by the normalisation
    recleaned,       \* clean_ohlcv_dataframe applied to `cleaned`
    npc,             \* "raw" -> "cleaned" -> "recleaned"
    \* --- trim_dataframes
    preprocessed,    \* the dict handed in: a sequence of [pair, df]
    timerange,       \* [starttype, startdt, stoptype, stopdt]
    startup_candles, \* the startup-candle count handed in
    ti,              \* the item the for loop of trim_dataframes is at
    trimmed,         \* what trim_dataframe returned for each item so far
    processed,       \* the result dict, in insertion order
    warnings,        \* the pairs named in a logged warning
    reduce_calls,    \* the pairs reduce_mem_usage was called for
    tstatus,         \* "running", "returned" or "raised"
    \* --- footprint reducers
    r_df,            \* the frame handed to a reducer
    r_fn,            \* the reducer applied: "none", "footprint", "mem_usage"
    r_out,           \* the frame the reducer returned
    r_out2,          \* the frame the reducer returned for r_out
    rpc,             \* "fresh", "reduced", "reduced2" or "raised"
    \* --- RecursiveAnalysis
    a_pc,            \* where start() is: "ready" (not in start), "purge",
                     \* "construct", "load", "reduce", "loop", "analyze"
    starts,          \* the calls of start() so far
    outcome,         \* of the last start(): "none", "running", "returned",
                     \* "raised"
    local_config,    \* self.local_config
    startup_candle,  \* self._startup_candle
    full_varHolder,  \* self.full_varHolder
    partial_varHolder_array, \* self.partial_varHolder_array
    exchange,        \* self.exchange: 0 is None, k > 0 the k-th handle made
    cur,             \* the partial VarHolder prepare_data is filling, in a
                     \* sequence; empty while it fills self.full_varHolder
    start_date_partial, \* local of start()
    loop_i,          \* the loop of start() is at self._startup_candle[loop_i]
    part_i,          \* the for loop of analyze_indicators is at this record
    verbosity,       \* "normal" or "reduced"
    model_dir,       \* whether the freqai identifier directory exists
    strategy,        \* what the strategy under test computes (see below)
    handles,         \* the exchange handles made so far
    engines,         \* the engines constructed during this start()
    trace,           \* the run and compare events of this start()
    compared,        \* the records analyze_indicators compared, this start()
    reported,        \* the differences it logged, this start()
    \* --- convert_ohlcv_format
    c_config,        \* the keys 'pairs', 'timeframes', 'candle_types' of config
    convert_from,
    convert_to,
    erase,
    files,           \* the data files of the data directory, by format
    paircombs,
    comb_i,          \* the for loop is at paircombs[comb_i]
    clog,            \* the calls of ohlcv_load, ohlcv_store, ohlcv_purge that
                     \* returned, in order
    cstatus          \* "called", "running", "returned" or "raised"

nvars == <<raw, fill_missing, drop_incomplete, grouped, cleaned, recleaned,
                   npc>>
tvars == <<preprocessed, timerange, startup_candles, ti, trimmed, processed,
           warnings, reduce_calls, tstatus>>
rvars == <<r_df, r_fn, r_out, r_out2, rpc>>
avars == <<a_pc, starts, outcome, local_config, startup_candle, full_varHolder,
           partial_varHolder_array, exchange, cur, start_date_partial, loop_i,
           part_i, verbosity, model_dir, strategy, handles, engines, trace,
           compared, reported>>
cvars == <<c_config, convert_from, convert_to, erase, files, paircombs,
           comb_i, clog, cstatus>>
vars == <<nvars, tvars, rvars, avars, cvars>>

\* ------------------------------------------------------------ sequences
RECURSIVE SeqMax(_)
SeqMax(s) ==
    IF Len(s) = 1 THEN s[1]
    ELSE LET m == SeqMax(Tail(s)) IN IF s[1] >= m THEN s[1] ELSE m

RECURSIVE SeqMin(_)
SeqMin(s) ==
    IF Len(s) = 1 THEN s[1]
    ELSE LET m == SeqMin(Tail(s)) IN IF s[1] <= m THEN s[1] ELSE m

RECURSIVE SeqSum(_)
SeqSum(s) == IF s = <<>> THEN 0 ELSE s[1] + SeqSum(Tail(s))

RECURSIVE SortedSeqOf(_)
SortedSeqOf(S) ==
    IF S = {} THEN <<>>
    ELSE LET m == CHOOSE x \in S : \A y \in S : x <= y
         IN <<m>> \o SortedSeqOf(S \ {m})

Column(df, c) == [i \in 1..Len(df) |-> df[i][c]]


\* ------------------------------------------------------- frames, numbers
\* A frame is [index, cols]: the index labels of its rows and its columns in
\* order, each [name, dtype, vals].  Dates are ticks.  A number of a numeric
\* column is [hi, lo], the integer hi * 2^16 + lo with 0 <= lo < 2^16, so that
\* integers beyond 32 bits can be told apart; the widest integers of the model
\* have 48 bits and stand for int64.  A float is integer-valued.
Limb == 2^16
N(n) == [hi |-> n \div Limb, lo |-> n % Limb]
Lt(a, b) == a.hi < b.hi \/ (a.hi = b.hi /\ a.lo < b.lo)
Gt(a, b) == Lt(b, a)
Small(v) == v.hi * Limb + v.lo

NRows(df) == Len(df.index)
ColNamed(df, name) ==
    df.cols[CHOOSE c \in 1..Len(df.cols) : df.cols[c].name = name]
TakeRows(df, keep) ==
    LET pos == SortedSeqOf(keep)
    IN [index |-> [k \in 1..Len(pos) |-> df.index[pos[k]]],
        cols  |-> [c \in 1..Len(df.cols) |->
                     [df.cols[c] EXCEPT
                        !.vals = [k \in 1..Len(pos) |-> df.cols[c].vals[pos[k]]]]]]
\* mutant: a frame of one row counts as empty
IsEmpty_OneRow(df) == NRows(df) <= 1
\* trimed_df.empty
IsEmpty(df) == NRows(df) = 0

\* the unused half of the state of a specification
NormIdle ==
    /\ raw = <<>> /\ fill_missing = FALSE /\ drop_incomplete = FALSE
    /\ grouped = <<>> /\ cleaned = <<>> /\ recleaned = <<>> /\ npc = "idle"
TrimIdle ==
    /\ preprocessed = <<>> /\ timerange = <<>> /\ startup_candles = 0
    /\ ti = 0 /\ trimmed = <<>> /\ processed = <<>> /\ warnings = <<>>
    /\ reduce_calls = <<>> /\ tstatus = "idle"
ReduceIdle ==
    /\ r_df = <<>> /\ r_fn = "none" /\ r_out = <<>> /\ r_out2 = <<>>
    /\ rpc = "idle"
ConvertIdle ==
    /\ c_config = <<>> /\ convert_from = "" /\ convert_to = "" /\ erase = FALSE
    /\ files = <<>> /\ paircombs = <<>> /\ comb_i = 0 /\ clog = <<>>
    /\ cstatus = "idle"
AnalysisIdle ==
    /\ a_pc = "idle" /\ starts = 0 /\ outcome = "none" /\ local_config = <<>>
    /\ startup_candle = <<>> /\ full_varHolder = <<>>
    /\ partial_varHolder_array = <<>> /\ exchange = 0 /\ cur = <<>>
    /\ start_date_partial = 0 /\ loop_i = 0 /\ part_i = 0
    /\ verbosity = "normal" /\ model_dir = FALSE /\ strategy = <<>>
    /\ handles = 0 /\ engines = <<>> /\ trace = <<>> /\ compared = <<>>
    /\ reported = <<>>


\* --------------------------------------------------- footprint reducers
\* the names bound in the module's global scope: its imports (lines 4-12),
\* its logger and its functions
ModuleGlobals ==
    {"logging", "Dict", "np", "pd", "DataFrame", "to_datetime",
     "DEFAULT_DATAFRAME_COLUMNS", "Config", "CandleType", "TradingMode",
     "logger", "ohlcv_to_dataframe", "clean_ohlcv_dataframe",
     "ohlcv_fill_up_missing_data", "reduce_mem_usage", "trim_dataframe",
     "trim_dataframes", "order_book_to_dataframe", "convert_ohlcv_format",
     "reduce_dataframe_footprint"}

\* np.iinfo(...).min / .max and np.finfo(...).min / .max
Int8Min == N(-(2^7))
Int8Max == N(2^7 - 1)
Int16Min == N(-(2^15))
Int16Max == N(2^15 - 1)
Int32Min == [hi |-> -(2^15), lo |-> 0]
Int32Max == [hi |-> 2^15 - 1, lo |-> Limb - 1]
\* the extremes of the model's widest integers, standing for those of int64
Int64Min == [hi |-> -(2^30), lo |-> 0]
Int64Max == [hi |-> 2^30 - 1, lo |-> Limb - 1]
Float16Max == N(65504)
Float16Min == N(-65504)
\* the extremes of the model's floats, standing for those of float32
\* (3.4e38): every float of the model lies strictly between them
Float32Max == [hi |-> 2^15 - 1, lo |-> Limb - 1]
Float32Min == [hi |-> -(2^15), lo |-> 0]

\* the nearest integer-valued float with a significand of p bits, ties to even
RECURSIVE Spacing(_, _, _)
Spacing(n, p, s) == IF n \div s < 2^p THEN s ELSE Spacing(n, p, 2 * s)
RoundNat(n, p) ==
    LET s == Spacing(n, p, 1)
        q == n \div s
        r == n % s
    IN IF 2 * r > s \/ (2 * r = s /\ q % 2 = 1) THEN (q + 1) * s ELSE q * s
RoundSig(n, p) == IF n >= 0 THEN RoundNat(n, p) ELSE 0 - RoundNat(0 - n, p)

\* Series.astype(dtype) on one value: integers wrap to the target width,
\* floats round to the target significand
Cast(v, dtype) ==
    CASE dtype = "int8"  ->
           LET b == v.lo % 2^8 IN N(IF b < 2^7 THEN b ELSE b - 2^8)
      [] dtype = "int16" -> N(IF v.lo < 2^15 THEN v.lo ELSE v.lo - Limb)
      [] dtype = "int32" ->
           [hi |-> ((v.hi + 2^15) % Limb) - 2^15, lo |-> v.lo]
      [] dtype = "float16" -> N(RoundSig(Small(v), 11))
      [] dtype = "float32" -> N(RoundSig(Small(v), 24))
      [] OTHER -> v

AsType(col, dtype) ==
    [col EXCEPT !.dtype = dtype,
                !.vals = [k \in 1..Len(col.vals) |-> Cast(col.vals[k], dtype)]]

RECURSIVE NumMin(_)
NumMin(s) ==
    IF Len(s) = 1 THEN s[1]
    ELSE LET m == NumMin(Tail(s)) IN IF Lt(m, s[1]) THEN m ELSE s[1]
RECURSIVE NumMax(_)
NumMax(s) ==
    IF Len(s) = 1 THEN s[1]
    ELSE LET m == NumMax(Tail(s)) IN IF Gt(m, s[1]) THEN m ELSE s[1]

IsIntDtype(t) == t \in {"int8", "int16", "int32", "int64"}
IsFloatDtype(t) == t \in {"float16", "float32", "float64"}

\* the target dtype of one column in the first loop of reduce_mem_usage
\* (lines 141-161); the frame is not empty
MemUsageDtype(col) ==
    IF col.dtype = "object" THEN col.dtype
    ELSE IF IsIntDtype(col.dtype) THEN
        LET c_min == NumMin(col.vals)
            c_max == NumMax(col.vals)
        IN IF Gt(c_min, Int8Min) /\ Lt(c_max, Int8Max) THEN "int8"
           ELSE IF Gt(c_min, Int16Min) /\ Lt(c_max, Int16Max) THEN "int16"
           ELSE IF Gt(c_min, Int32Min) /\ Lt(c_max, Int32Max) THEN "int32"
           ELSE IF Gt(c_min, Int64Min) /\ Lt(c_max, Int64Max) THEN "int64"
           ELSE col.dtype
    ELSE IF IsFloatDtype(col.dtype) THEN
        LET c_min == NumMin(col.vals)
            c_max == NumMax(col.vals)
        IN IF Gt(c_min, Float16Min) /\ Lt(c_max, Float16Max) THEN "float16"
           ELSE IF Gt(c_min, Float32Min) /\ Lt(c_max, Float32Max) THEN "float32"
           ELSE "float64"
    ELSE col.dtype

\* the first loop of reduce_mem_usage: every column but the first
reduce_mem_usage_loop(df) ==
    [df EXCEPT !.cols =
        [c \in 1..Len(df.cols) |->
            IF c = 1 THEN df.cols[c]
            ELSE AsType(df.cols[c], MemUsageDtype(df.cols[c]))]]

\* reduce_mem_usage: [exc, df].  Line 138 reads the global `time` and line 180
\* the global `numbers`; a name that is not bound raises NameError there.
reduce_mem_usage(pair, dataframe) ==
    IF "time" \notin ModuleGlobals
    THEN [exc |-> "NameError", df |-> <<>>]
    ELSE IF "numbers" \notin ModuleGlobals /\ Len(dataframe.cols) > 1
    THEN [exc |-> "NameError", df |-> <<>>]
    ELSE [exc |-> "", df |-> reduce_mem_usage_loop(dataframe)]

ProtectedColumns == {"open", "high", "low", "close", "volume"}

\* reduce_dataframe_footprint: float64 -> float32 and int64 -> int32 for every
\* column that is not protected; no look at the values
reduce_dataframe_footprint(df) ==
    [df EXCEPT !.cols =
        [c \in 1..Len(df.cols) |->
            LET col == df.cols[c] IN
            IF col.name \in ProtectedColumns THEN col
            ELSE IF col.dtype = "float64" THEN AsType(col, "float32")
            ELSE IF col.dtype = "int64" THEN AsType(col, "int32")
            ELSE col]]

\* ------------------------------------------------------------- trimming
DateVals(df) == ColNamed(df, "date").vals

\* mutant: the window start is applied next to the startup count
trim_dataframe_StartToo(df, tr, startup) ==
    LET df0 == IF startup # 0
               THEN TakeRows(df, {i \in 1..NRows(df) : i > startup})
               ELSE df
        df1 == IF tr.starttype = "date"
               THEN TakeRows(df0, {i \in 1..NRows(df0) :
                                       DateVals(df0)[i] >= tr.startdt})
               ELSE df0
    IN IF tr.stoptype = "date"
       THEN TakeRows(df1, {i \in 1..NRows(df1) : DateVals(df1)[i] <= tr.stopdt})
       ELSE df1

\* trim_dataframe; startup_candles is a count (>= 0)
trim_dataframe(df, tr, startup) ==
    LET df1 == IF startup # 0
               THEN TakeRows(df, {i \in 1..NRows(df) : i > startup})
               ELSE IF tr.starttype = "date"
               THEN TakeRows(df, {i \in 1..NRows(df) :
                                      DateVals(df)[i] >= tr.startdt})
               ELSE df
    IN IF tr.stoptype = "date"
       THEN TakeRows(df1, {i \in 1..NRows(df1) : DateVals(df1)[i] <= tr.stopdt})
       ELSE df1

\* --------------------------------------------------- candle normalizer
\* The missing value pandas puts in an empty resampling bucket.  Prices and
\* volumes of the model are >= 0, so it is distinct from every value.
NaN == 0 - 1

\* ohlcv_to_dataframe: the 6-tuples become rows of a frame; the timestamp is
\* cast to an instant and the five values to float64 (exact for the small
\* integers of the model), then the frame is cleaned.
ToFrame(ohlcv) ==
    [i \in 1..Len(ohlcv) |->
        [date |-> ohlcv[i][1], open |-> ohlcv[i][2], high |-> ohlcv[i][3],
         low |-> ohlcv[i][4], close |-> ohlcv[i][5], volume |-> ohlcv[i][6]]]

\* the distinct dates of a frame in the order of their first appearance
RECURSIVE FirstSeen(_, _)
FirstSeen(data, seen) ==
    IF data = <<>> THEN <<>>
    ELSE IF data[1].date \in seen THEN FirstSeen(Tail(data), seen)
    ELSE <<data[1].date>> \o FirstSeen(Tail(data), seen \cup {data[1].date})

\* mutant: groupby(sort=False), the groups come in order of first appearance
GroupByDate_Unsorted(data) ==
    LET dates == FirstSeen(data, {})
        grp(d) == SelectSeq(data, LAMBDA r : r.date = d)
    IN [k \in 1..Len(dates) |->
          LET g == grp(dates[k]) IN
          [date   |-> dates[k],
           open   |-> g[1].open,
           high   |-> SeqMax(Column(g, "high")),
           low    |-> SeqMin(Column(g, "low")),
           close  |-> g[Len(g)].close,
           volume |-> SeqMax(Column(g, "volume"))]]

\* mutant: the duplicate rows' volumes are summed, as the resampling does
GroupByDate_VolumeSum(data) ==
    LET dates == SortedSeqOf({data[i].date : i \in 1..Len(data)})
        grp(d) == SelectSeq(data, LAMBDA r : r.date = d)
    IN [k \in 1..Len(dates) |->
          LET g == grp(dates[k]) IN
          [date   |-> dates[k],
           open   |-> g[1].open,
           high   |-> SeqMax(Column(g, "high")),
           low    |-> SeqMin(Column(g, "low")),
           close  |-> g[Len(g)].close,
           volume |-> SeqSum(Column(g, "volume"))]]

\* data.groupby(by='date', as_index=False, sort=True).agg({...}): one row per
\* distinct date, ascending; the rows of a group keep their input order.
GroupByDate(data) ==
    LET dates == SortedSeqOf({data[i].date : i \in 1..Len(data)})
        grp(d) == SelectSeq(data, LAMBDA r : r.date = d)
    IN [k \in 1..Len(dates) |->
          LET g == grp(dates[k]) IN
          [date   |-> dates[k],
           open   |-> g[1].open,
           high   |-> SeqMax(Column(g, "high")),
           low    |-> SeqMin(Column(g, "low")),
           close  |-> g[Len(g)].close,
           volume |-> SeqMax(Column(g, "volume"))]]

\* data.drop(data.tail(1).index): the last row goes, if there is one
DropLast(data) == IF data = <<>> THEN data ELSE SubSeq(data, 1, Len(data) - 1)

\* mutant: buckets are labelled by their right edge
Bucket_RightLabel(ts, step) == (ts \div step) * step + step

\* the start of the resampling bucket of a timestamp
Bucket(ts, step) == (ts \div step) * step

\* mutant: only the buckets that hold a row come out (a groupby on the bucket)
Resample_NoEmptyBuckets(dataframe, step) ==
    LET bs == SortedSeqOf({Bucket(dataframe[i].date, step) :
                               i \in 1..Len(dataframe)})
        rowsOf(b) == SelectSeq(dataframe, LAMBDA r : Bucket(r.date, step) = b)
    IN [k \in 1..Len(bs) |->
          LET g == rowsOf(bs[k]) IN
          [date   |-> bs[k],
           open   |-> g[1].open,
           high   |-> SeqMax(Column(g, "high")),
           low    |-> SeqMin(Column(g, "low")),
           close  |-> g[Len(g)].close,
           volume |-> SeqSum(Column(g, "volume"))]]

\* dataframe.resample(interval, on='date').agg(ohlcv_dict): one row per bucket
\* from the first to the last bucket that holds a row; an empty bucket has
\* NaN prices and the empty sum 0 as its volume.
Resample(dataframe, step) ==
    IF dataframe = <<>> THEN <<>>
    ELSE
    LET bs    == {Bucket(dataframe[i].date, step) : i \in 1..Len(dataframe)}
        first == CHOOSE b \in bs : \A c \in bs : b <= c
        last  == CHOOSE b \in bs : \A c \in bs : b >= c
        n     == ((last - first) \div step) + 1
        rowsOf(b) == SelectSeq(dataframe, LAMBDA r : Bucket(r.date, step) = b)
    IN [k \in 1..n |->
          LET b == first + (k - 1) * step
              g == rowsOf(b)
          IN IF g = <<>>
             THEN [date |-> b, open |-> NaN, high |-> NaN, low |-> NaN,
                   close |-> NaN, volume |-> 0]
             ELSE [date   |-> b,
                   open   |-> g[1].open,
                   high   |-> SeqMax(Column(g, "high")),
                   low    |-> SeqMin(Column(g, "low")),
                   close  |-> g[Len(g)].close,
                   volume |-> SeqSum(Column(g, "volume"))]]

\* mutant: the forward fill carries the previous row's open
RECURSIVE FfillClose_FromOpen(_, _)
FfillClose_FromOpen(df, prev) ==
    IF df = <<>> THEN <<>>
    ELSE LET c == IF df[1].close = NaN THEN prev ELSE df[1].close
             o == IF df[1].open = NaN THEN prev ELSE df[1].open
         IN <<[df[1] EXCEPT !.close = c]>> \o FfillClose_FromOpen(Tail(df), o)

\* df['close'].ffill(): a missing close takes the nearest earlier close
RECURSIVE FfillClose(_, _)
FfillClose(df, prev) ==
    IF df = <<>> THEN <<>>
    ELSE LET c == IF df[1].close = NaN THEN prev ELSE df[1].close
         IN <<[df[1] EXCEPT !.close = c]>> \o FfillClose(Tail(df), c)

\* df[['open','high','low']].fillna(value = the row's close)
FillFromClose(df) ==
    [i \in 1..Len(df) |->
        [df[i] EXCEPT !.open = IF @ = NaN THEN df[i].close ELSE @,
                      !.high = IF @ = NaN THEN df[i].close ELSE @,
                      !.low  = IF @ = NaN THEN df[i].close ELSE @]]

ohlcv_fill_up_missing_data(dataframe, step) ==
    FillFromClose(FfillClose(Resample(dataframe, step), NaN))

clean_ohlcv_dataframe(data, step, fill, drop) ==
    LET g == GroupByDate(data)
        d == IF drop THEN DropLast(g) ELSE g
    IN IF fill THEN ohlcv_fill_up_missing_data(d, step) ELSE d

ohlcv_to_dataframe(ohlcv, step, fill, drop) ==
    clean_ohlcv_dataframe(ToFrame(ohlcv), step, fill, drop)

\* raw rows: any order, any number of rows per timestamp.  A raw row is a
\* tick that traded at one price v with volume v, so that two rows of a group
\* or bucket differ in every column and each column shows its own aggregate.
RawRow == {<<t, v, v, v, v, v>> : t \in 0..MaxTs, v \in 1..MaxVal}

RawLists == UNION {[1..n -> RawRow] : n \in 0..MaxRows}

NormInit ==
    /\ raw \in RawLists
    /\ TrimIdle
    /\ ReduceIdle
    /\ AnalysisIdle
    /\ ConvertIdle
    /\ fill_missing = FALSE
    /\ drop_incomplete = FALSE
    /\ grouped = <<>>
    /\ cleaned = <<>>
    /\ recleaned = <<>>
    /\ npc = "raw"

\* a caller normalises the raw rows
Normalize ==
    /\ npc = "raw"
    /\ \E f \in BOOLEAN, d \in BOOLEAN :
         /\ fill_missing' = f
         /\ drop_incomplete' = d
         /\ cleaned' = ohlcv_to_dataframe(raw, TimeframeTicks, f, d)
    /\ grouped' = GroupByDate(ToFrame(raw))
    /\ npc' = "cleaned"
    /\ UNCHANGED <<raw, recleaned, tvars, rvars, avars, cvars>>

\* the returned table is cleaned again with the same flags
Renormalize ==
    /\ npc = "cleaned"
    /\ recleaned' = clean_ohlcv_dataframe(cleaned, TimeframeTicks,
                                          fill_missing, drop_incomplete)
    /\ npc' = "recleaned"
    /\ UNCHANGED <<raw, fill_missing, drop_incomplete, grouped, cleaned,
                   tvars, rvars, avars, cvars>>

NormNext == Normalize \/ Renormalize

SpecNorm == NormInit /\ [][NormNext]_vars


\* ------------------------------------------------------ trim_dataframes
\* An analysed frame: rows at strictly increasing dates (it went through the
\* normalizer), index 0..n-1, the float64 candle columns and an int64
\* indicator column.
FrameOfDates(S) ==
    LET ds == SortedSeqOf(S)
        n  == Len(ds)
    IN [index |-> [k \in 1..n |-> k - 1],
        cols  |-> << [name |-> "date", dtype |-> "datetime64", vals |-> ds],
                     [name |-> "close", dtype |-> "float64",
                      vals |-> [k \in 1..n |-> N(100 * (ds[k] + 1))]],
                     [name |-> "volume", dtype |-> "float64",
                      vals |-> [k \in 1..n |-> N(70000 + ds[k])]],
                     [name |-> "enter_long", dtype |-> "int64",
                      vals |-> [k \in 1..n |-> N(ds[k] % 2)]] >>]

AnalysedFrames == {FrameOfDates(S) : S \in SUBSET (0..MaxDate)}

Pairs == <<"ETH/BTC", "XRP/BTC">>

TimeRanges ==
    {[starttype |-> "", startdt |-> 0, stoptype |-> "", stopdt |-> 0]}
    \cup {[starttype |-> "date", startdt |-> a, stoptype |-> "", stopdt |-> 0] :
              a \in 0..MaxDate}
    \cup {[starttype |-> "", startdt |-> 0, stoptype |-> "date", stopdt |-> b] :
              b \in 0..MaxDate}
    \cup {[starttype |-> "date", startdt |-> a, stoptype |-> "date", stopdt |-> b] :
              a \in 0..MaxDate, b \in 0..MaxDate}

TrimInit ==
    /\ NormIdle
    /\ ReduceIdle
    /\ AnalysisIdle
    /\ ConvertIdle
    /\ \E n \in 0..Len(Pairs) :
         \E fs \in [1..n -> AnalysedFrames] :
            preprocessed = [k \in 1..n |-> [pair |-> Pairs[k], df |-> fs[k]]]
    /\ timerange \in TimeRanges
    /\ startup_candles \in 0..MaxStartup
    /\ ti = 1
    /\ trimmed = <<>>
    /\ processed = <<>>
    /\ warnings = <<>>
    /\ reduce_calls = <<>>
    /\ tstatus = "running"

\* one pass of the for loop of trim_dataframes (lines 232-243)
TrimPair ==
    /\ tstatus = "running"
    /\ ti <= Len(preprocessed)
    /\ LET pair      == preprocessed[ti].pair
           trimed_df == trim_dataframe(preprocessed[ti].df, timerange,
                                       startup_candles)
       IN /\ trimmed' = Append(trimmed, trimed_df)
          /\ IF ~IsEmpty(trimed_df)
             THEN LET res == reduce_mem_usage(pair, trimed_df) IN
                  /\ reduce_calls' = Append(reduce_calls, pair)
                  /\ warnings' = warnings
                  /\ IF res.exc # ""
                     THEN /\ tstatus' = "raised"
                          /\ UNCHANGED <<processed, ti>>
                     ELSE /\ processed' =
                                Append(processed, [pair |-> pair, df |-> res.df])
                          /\ ti' = ti + 1
                          /\ tstatus' = tstatus
             ELSE /\ warnings' = Append(warnings, pair)
                  /\ ti' = ti + 1
                  /\ UNCHANGED <<reduce_calls, processed, tstatus>>
    /\ UNCHANGED <<preprocessed, timerange, startup_candles, nvars, rvars,
                   avars, cvars>>

\* the loop is over: return processed (line 244)
TrimReturn ==
    /\ tstatus = "running"
    /\ ti > Len(preprocessed)
    /\ tstatus' = "returned"
    /\ UNCHANGED <<preprocessed, timerange, startup_candles, ti, trimmed,
                   processed, warnings, reduce_calls, nvars, rvars, avars,
                   cvars>>

TrimNext == TrimPair \/ TrimReturn

SpecTrim == TrimInit /\ [][TrimNext]_vars

\* --------------------------------------------- applying a footprint reducer
\* the values a column of a dtype may hold in a frame under test; the value
\* of an object column is opaque to the reducers
Pool(dtype) ==
    CASE dtype = "float64" -> {N(0), N(1), N(2049), N(65503), N(16777217)}
      [] dtype = "float32" -> {N(0), N(1), N(2049), N(65504)}
      [] dtype = "float16" -> {N(0), N(1), N(65504)}
      [] dtype = "int64"   -> {N(-129), N(0), N(127), N(128), N(32767),
                               [hi |-> 2^15 - 1, lo |-> Limb - 1],
                               [hi |-> 2^15, lo |-> 0]}
      [] dtype = "int32"   -> {N(0), N(127), N(32767), N(40000)}
      [] dtype = "int16"   -> {N(0), N(127), N(300)}
      [] dtype = "int8"    -> {N(0), N(127)}
      [] dtype = "object"  -> {N(7)}

Dtypes == {"float64", "float32", "float16", "int64", "int32", "int16", "int8",
           "object"}

\* a frame of a date column and one data column, protected ("close") or not
ReduceFrames ==
    {[index |-> [k \in 1..n |-> k - 1],
      cols  |-> << [name |-> "date", dtype |-> "datetime64",
                    vals |-> [k \in 1..n |-> k - 1]],
                   [name |-> nm, dtype |-> dt, vals |-> vs] >>] :
        <<n, nm, dt, vs>> \in
            {q \in (1..MaxColLen) \X {"close", "rsi"} \X Dtypes
                    \X UNION {[1..m -> UNION {Pool(d) : d \in Dtypes}] :
                                  m \in 1..MaxColLen} :
                /\ Len(q[4]) = q[1]
                /\ \A k \in 1..q[1] : q[4][k] \in Pool(q[3])}}

ReduceInit ==
    /\ NormIdle
    /\ TrimIdle
    /\ AnalysisIdle
    /\ ConvertIdle
    /\ r_df \in ReduceFrames
    /\ r_fn = "none"
    /\ r_out = <<>>
    /\ r_out2 = <<>>
    /\ rpc = "fresh"

\* a caller reduces the frame with reduce_dataframe_footprint
ApplyFootprint ==
    /\ rpc = "fresh"
    /\ r_fn' = "footprint"
    /\ r_out' = reduce_dataframe_footprint(r_df)
    /\ rpc' = "reduced"
    /\ UNCHANGED <<r_df, r_out2, nvars, tvars, avars, cvars>>

\* a caller reduces the frame with reduce_mem_usage
ApplyMemUsage ==
    /\ rpc = "fresh"
    /\ r_fn' = "mem_usage"
    /\ LET res == reduce_mem_usage("ETH/BTC", r_df) IN
         IF res.exc # ""
         THEN rpc' = "raised" /\ r_out' = r_out
         ELSE rpc' = "reduced" /\ r_out' = res.df
    /\ UNCHANGED <<r_df, r_out2, nvars, tvars, avars, cvars>>

\* the caller reduces the returned frame again with the same reducer
Reapply ==
    /\ rpc = "reduced"
    /\ IF r_fn = "footprint"
       THEN rpc' = "reduced2" /\ r_out2' = reduce_dataframe_footprint(r_out)
       ELSE LET res == reduce_mem_usage("ETH/BTC", r_out) IN
            IF res.exc # ""
            THEN rpc' = "raised" /\ r_out2' = r_out2
            ELSE rpc' = "reduced2" /\ r_out2' = res.df
    /\ UNCHANGED <<r_df, r_fn, r_out, nvars, tvars, avars, cvars>>

ReduceNext == ApplyFootprint \/ ApplyMemUsage \/ Reapply

SpecReduce == ReduceInit /\ [][ReduceNext]_vars

\* ------------------------------------------------------ RecursiveAnalysis
\* Times are minutes since the epoch; NoDt is None.
NoDt == 0 - 1
DefaultStartup == <<199, 399, 499, 999, 1999>>
\* the values of config['startup_candle']: the default list, cut short
StartupLists == {SubSeq(DefaultStartup, 1, n) : n \in 0..MaxPartials}
\* the values of config['timerange'] once parsed: open at both ends, or closed
ParsedTimeranges == {[startdt |-> NoDt, stopdt |-> NoDt],
                     [startdt |-> 3, stopdt |-> 20]}
\* datetime.utcnow() when the n-th call of start() sets up its full run: the
\* clock has moved on between two calls
utcnow(n) == 30 + n
\* config.get('startup_candle_count') of the config given to __init__
ConfiguredStartupCounts == {30}
dt_to_timestamp(dt) == dt * 60
\* The last row of an indicator table, by column.  A value is a label: the
\* comparison only tells equal from different, so the baseline run's row is
\* BaseRow and a partial run's row is any row.
IndicatorColumns == <<"rsi", "ema">>
IndicatorRows == [rsi : 1..2, ema : 1..2]
BaseRow == [rsi |-> 1, ema |-> 1]
OtherRow == [rsi |-> 2, ema |-> 1]
\* A strategy under test: its timeframe, what its indicators end with on the
\* first pair after a run with each startup-candle count, whether they end
\* differently from the baseline on the other pairs, and the startup-candle
\* count it was configured with.
Strategies(list) ==
    [timeframe : {"1m", "5m"},
     rows : [{list[i] : i \in 1..Len(list)} -> IndicatorRows],
     others_differ : BOOLEAN,
     configured : ConfiguredStartupCounts]
timeframe_to_minutes(tf) == CASE tf = "1m" -> 1 [] tf = "5m" -> 5
\* Backtesting(config, exchange).exchange: the handle given, or a new one
EngineExchange(given, made) == IF given = 0 THEN made + 1 ELSE given
\* strategy.advise_all_indicators(data), last row of each pair's table
EngineIndicators(strat, holder, pairs) ==
    [p \in {pairs[i] : i \in 1..Len(pairs)} |->
        IF holder.startup_candle = NoDt THEN BaseRow
        ELSE IF p = pairs[1] THEN strat.rows[holder.startup_candle]
        ELSE IF strat.others_differ THEN OtherRow ELSE BaseRow]
VarHolder ==
    [from_dt |-> NoDt, to_dt |-> NoDt, startup_candle |-> NoDt,
     timeframe |-> "", indicators |-> <<>>]
\* Series.compare: the labels at which the two rows differ, in column order
compare(self_row, other_row) ==
    SelectSeq(IndicatorColumns, LAMBDA c : self_row[c] # other_row[c])
\* the lines analyze_indicators logs for one compared record: the loop over
\* the columns "self" and "other" of the comparison skips "other"
\* mutant: the column "other" is not skipped
DifferenceLines_Both(diff) ==
    LET lines(col_name) == diff
    IN lines("self") \o lines("other")
DifferenceLines(diff) ==
    LET lines(col_name) == IF col_name = "other" THEN <<>> ELSE diff
    IN lines("self") \o lines("other")

AnalysisInit ==
    /\ NormIdle
    /\ TrimIdle
    /\ ReduceIdle
    /\ ConvertIdle
    /\ a_pc = "ready"
    /\ starts = 0
    /\ outcome = "none"
    /\ startup_candle \in StartupLists
    /\ strategy \in Strategies(startup_candle)
    /\ \E tr \in ParsedTimeranges, f \in BOOLEAN :
         local_config = [timerange |-> tr, freqai_identifier |-> f,
                         startup_candle_count |-> strategy.configured,
                         pairs |-> Pairs]
    /\ model_dir \in BOOLEAN
    /\ full_varHolder = VarHolder
    /\ partial_varHolder_array = <<>>
    /\ exchange = 0
    /\ cur = <<>>
    /\ start_date_partial = NoDt
    /\ loop_i = 0
    /\ part_i = 0
    /\ verbosity = "normal"
    /\ handles = 0
    /\ engines = <<>>
    /\ trace = <<>>
    /\ compared = <<>>
    /\ reported = <<>>

\* start() is called and enters fill_full_varholder, up to prepare_data
StartCall ==
    /\ a_pc = "ready"
    /\ starts < MaxStarts
    /\ starts' = starts + 1
    /\ outcome' = "running"
    /\ LET tr == local_config.timerange IN
       full_varHolder' =
         [VarHolder EXCEPT
            !.from_dt = IF tr.startdt = NoDt THEN 0 ELSE tr.startdt,
            !.to_dt = IF tr.stopdt = NoDt THEN utcnow(starts')
                      ELSE tr.stopdt]
    /\ cur' = <<>>
    /\ a_pc' = "purge"
    /\ engines' = <<>>
    /\ trace' = <<>>
    /\ compared' = <<>>
    /\ reported' = <<>>
    /\ UNCHANGED <<local_config, startup_candle, partial_varHolder_array,
                   exchange, start_date_partial, loop_i, part_i, verbosity,
                   model_dir, strategy, handles, nvars, tvars, rvars, cvars>>

\* the record prepare_data is filling
Holder == IF cur = <<>> THEN full_varHolder ELSE cur[1]

\* prepare_data, the removal of the model directory
\* mutant: the directory is left in place
PurgeModels_Skip ==
    /\ a_pc = "purge"
    /\ a_pc' = "construct"
    /\ UNCHANGED <<starts, outcome, local_config, startup_candle,
                   full_varHolder, partial_varHolder_array, exchange, cur,
                   start_date_partial, loop_i, part_i, verbosity, strategy,
                   handles, engines, trace, compared, reported, model_dir,
                   nvars, tvars, rvars, cvars>>
PurgeModels ==
    /\ a_pc = "purge"
    /\ model_dir' = IF local_config.freqai_identifier /\ model_dir
                    THEN FALSE ELSE model_dir
    /\ a_pc' = "construct"
    /\ UNCHANGED <<starts, outcome, local_config, startup_candle,
                   full_varHolder, partial_varHolder_array, exchange, cur,
                   start_date_partial, loop_i, part_i, verbosity, strategy,
                   handles, engines, trace, compared, reported,
                   nvars, tvars, rvars, cvars>>

\* prepare_data, the configuration of the run and the engine's construction
\* mutant: the engine's handle is not kept in self.exchange
ConstructEngine_NoReuse ==
    /\ a_pc = "construct"
    /\ LET exposed == EngineExchange(exchange, handles)
           engine == [kind |-> IF cur = <<>> THEN "full" ELSE "partial",
                      timerange |-> <<dt_to_timestamp(Holder.from_dt),
                                      dt_to_timestamp(Holder.to_dt)>>,
                      startup_candle_count |->
                          local_config.startup_candle_count,
                      given |-> exchange,
                      exchange |-> exposed,
                      model_dir |-> model_dir]
       IN /\ engines' = Append(engines, engine)
          /\ exchange' = exchange
          /\ handles' = IF exchange = 0 THEN handles + 1 ELSE handles
          /\ trace' = Append(trace, [ev |-> "run_start", kind |-> engine.kind,
                                     n |-> Holder.startup_candle])
    /\ a_pc' = "load"
    /\ UNCHANGED <<starts, outcome, local_config, startup_candle,
                   full_varHolder, partial_varHolder_array, cur,
                   start_date_partial, loop_i, part_i, verbosity, model_dir,
                   strategy, compared, reported, nvars, tvars, rvars, cvars>>
ConstructEngine ==
    /\ a_pc = "construct"
    /\ LET exposed == EngineExchange(exchange, handles)
           engine == [kind |-> IF cur = <<>> THEN "full" ELSE "partial",
                      timerange |-> <<dt_to_timestamp(Holder.from_dt),
                                      dt_to_timestamp(Holder.to_dt)>>,
                      startup_candle_count |->
                          local_config.startup_candle_count,
                      given |-> exchange,
                      exchange |-> exposed,
                      model_dir |-> model_dir]
       IN /\ engines' = Append(engines, engine)
          /\ exchange' = exposed
          /\ handles' = IF exchange = 0 THEN handles + 1 ELSE handles
          /\ trace' = Append(trace, [ev |-> "run_start", kind |-> engine.kind,
                                     n |-> Holder.startup_candle])
    /\ a_pc' = "load"
    /\ UNCHANGED <<starts, outcome, local_config, startup_candle,
                   full_varHolder, partial_varHolder_array, cur,
                   start_date_partial, loop_i, part_i, verbosity, model_dir,
                   strategy, compared, reported, nvars, tvars, rvars, cvars>>

\* prepare_data, the loading of the data and the indicators; back in
\* fill_partial_varholder the record is appended
LoadData ==
    /\ a_pc = "load"
    /\ LET filled == [Holder EXCEPT
                        !.timeframe = strategy.timeframe,
                        !.indicators = EngineIndicators(strategy, Holder,
                                                        local_config.pairs)]
       IN IF cur = <<>>
          THEN /\ full_varHolder' = filled
               /\ a_pc' = "reduce"
               /\ UNCHANGED <<partial_varHolder_array, loop_i>>
          ELSE /\ partial_varHolder_array' =
                     Append(partial_varHolder_array, filled)
               /\ loop_i' = loop_i + 1
               /\ a_pc' = "loop"
               /\ UNCHANGED full_varHolder
    /\ model_dir' = (model_dir \/ local_config.freqai_identifier)
    /\ trace' = Append(trace, [ev |-> "run_end",
                               kind |-> IF cur = <<>> THEN "full"
                                        ELSE "partial",
                               n |-> Holder.startup_candle])
    /\ UNCHANGED <<starts, outcome, local_config, startup_candle, exchange,
                   cur, start_date_partial, part_i, verbosity, strategy,
                   handles, engines, compared, reported, nvars, tvars, rvars,
                   cvars>>

\* the engine raises while it is constructed or while it loads: nothing in
\* prepare_data, fill_*_varholder or start() catches
RunRaises ==
    /\ a_pc \in {"construct", "load"}
    /\ a_pc' = "ready"
    /\ outcome' = "raised"
    /\ UNCHANGED <<starts, local_config, startup_candle, full_varHolder,
                   partial_varHolder_array, exchange, cur, start_date_partial,
                   loop_i, part_i, verbosity, model_dir, strategy, handles,
                   engines, trace, compared, reported, nvars, tvars, rvars,
                   cvars>>

\* start(), from the full run to the loop over self._startup_candle
ReduceVerbosity ==
    /\ a_pc = "reduce"
    /\ verbosity' = "reduced"
    /\ start_date_partial' =
         full_varHolder.to_dt - timeframe_to_minutes(full_varHolder.timeframe)
    /\ loop_i' = 1
    /\ a_pc' = "loop"
    /\ UNCHANGED <<starts, outcome, local_config, startup_candle,
                   full_varHolder, partial_varHolder_array, exchange, cur,
                   part_i, model_dir, strategy, handles, engines, trace,
                   compared, reported, nvars, tvars, rvars, cvars>>

\* one turn of the loop of start(): fill_partial_varholder up to prepare_data
\* mutant: the partial run starts where the full run starts
fill_partial_varholder_FullStart ==
    /\ a_pc = "loop"
    /\ loop_i <= Len(startup_candle)
    /\ cur' = <<[VarHolder EXCEPT !.from_dt = full_varHolder.from_dt,
                                 !.to_dt = full_varHolder.to_dt,
                                 !.startup_candle = startup_candle[loop_i]]>>
    /\ local_config' = [local_config EXCEPT
                          !.startup_candle_count = startup_candle[loop_i]]
    /\ a_pc' = "purge"
    /\ UNCHANGED <<starts, outcome, startup_candle, full_varHolder,
                   partial_varHolder_array, exchange, start_date_partial,
                   loop_i, part_i, verbosity, model_dir, strategy, handles,
                   engines, trace, compared, reported, nvars, tvars, rvars,
                   cvars>>
fill_partial_varholder ==
    /\ a_pc = "loop"
    /\ loop_i <= Len(startup_candle)
    /\ cur' = <<[VarHolder EXCEPT !.from_dt = start_date_partial,
                                 !.to_dt = full_varHolder.to_dt,
                                 !.startup_candle = startup_candle[loop_i]]>>
    /\ local_config' = [local_config EXCEPT
                          !.startup_candle_count = startup_candle[loop_i]]
    /\ a_pc' = "purge"
    /\ UNCHANGED <<starts, outcome, startup_candle, full_varHolder,
                   partial_varHolder_array, exchange, start_date_partial,
                   loop_i, part_i, verbosity, model_dir, strategy, handles,
                   engines, trace, compared, reported, nvars, tvars, rvars,
                   cvars>>

\* start(), after the loop: the verbosity is restored and analyze_indicators
\* is entered
\* mutant: the comparison is entered before the last partial run
RestoreVerbosity_Early ==
    /\ a_pc = "loop"
    /\ loop_i >= Len(startup_candle)
    /\ verbosity' = "normal"
    /\ part_i' = 1
    /\ a_pc' = "analyze"
    /\ trace' = Append(trace, [ev |-> "compare", kind |-> "", n |-> NoDt])
    /\ UNCHANGED <<starts, outcome, local_config, startup_candle,
                   full_varHolder, partial_varHolder_array, exchange, cur,
                   start_date_partial, loop_i, model_dir, strategy, handles,
                   engines, compared, reported, nvars, tvars, rvars, cvars>>
RestoreVerbosity ==
    /\ a_pc = "loop"
    /\ loop_i > Len(startup_candle)
    /\ verbosity' = "normal"
    /\ part_i' = 1
    /\ a_pc' = "analyze"
    /\ trace' = Append(trace, [ev |-> "compare", kind |-> "", n |-> NoDt])
    /\ UNCHANGED <<starts, outcome, local_config, startup_candle,
                   full_varHolder, partial_varHolder_array, exchange, cur,
                   start_date_partial, loop_i, model_dir, strategy, handles,
                   engines, compared, reported, nvars, tvars, rvars, cvars>>

\* one turn of the loop of analyze_indicators; the first record without a
\* difference ends the loop, and start() returns
\* mutant: the loop goes on after a record without a difference
CompareStep_NoBreak ==
    /\ a_pc = "analyze"
    /\ part_i <= Len(partial_varHolder_array)
    /\ LET pair_to_check == local_config.pairs[1]
           base_last_row == full_varHolder.indicators[pair_to_check]
           part_last_row ==
               partial_varHolder_array[part_i].indicators[pair_to_check]
           compare_df == compare(base_last_row, part_last_row)
       IN /\ compared' = Append(compared, part_i)
          /\ reported' = reported \o
                [k \in 1..Len(DifferenceLines(compare_df)) |->
                   [part |-> part_i, pair |-> pair_to_check,
                    indicator |-> DifferenceLines(compare_df)[k]]]
          /\ part_i' = part_i + 1
          /\ UNCHANGED <<a_pc, outcome>>
    /\ UNCHANGED <<starts, local_config, startup_candle, full_varHolder,
                   partial_varHolder_array, exchange, cur, start_date_partial,
                   loop_i, verbosity, model_dir, strategy, handles, engines,
                   trace, nvars, tvars, rvars, cvars>>
CompareStep ==
    /\ a_pc = "analyze"
    /\ part_i <= Len(partial_varHolder_array)
    /\ LET pair_to_check == local_config.pairs[1]
           base_last_row == full_varHolder.indicators[pair_to_check]
           part_last_row ==
               partial_varHolder_array[part_i].indicators[pair_to_check]
           compare_df == compare(base_last_row, part_last_row)
       IN /\ compared' = Append(compared, part_i)
          /\ IF Len(compare_df) > 0
             THEN /\ reported' = reported \o
                        [k \in 1..Len(DifferenceLines(compare_df)) |->
                           [part |-> part_i, pair |-> pair_to_check,
                            indicator |-> DifferenceLines(compare_df)[k]]]
                  /\ part_i' = part_i + 1
                  /\ UNCHANGED <<a_pc, outcome>>
             ELSE /\ a_pc' = "ready"
                  /\ outcome' = "returned"
                  /\ UNCHANGED <<reported, part_i>>
    /\ UNCHANGED <<starts, local_config, startup_candle, full_varHolder,
                   partial_varHolder_array, exchange, cur, start_date_partial,
                   loop_i, verbosity, model_dir, strategy, handles, engines,
                   trace, nvars, tvars, rvars, cvars>>

\* the loop of analyze_indicators runs out, and start() returns
AnalyzeEnd ==
    /\ a_pc = "analyze"
    /\ part_i > Len(partial_varHolder_array)
    /\ a_pc' = "ready"
    /\ outcome' = "returned"
    /\ UNCHANGED <<starts, local_config, startup_candle, full_varHolder,
                   partial_varHolder_array, exchange, cur, start_date_partial,
                   loop_i, part_i, verbosity, model_dir, strategy, handles,
                   engines, trace, compared, reported, nvars, tvars, rvars,
                   cvars>>

AnalysisNext ==
    \/ StartCall
    \/ PurgeModels
    \/ ConstructEngine
    \/ LoadData
    \/ RunRaises
    \/ ReduceVerbosity
    \/ fill_partial_varholder
    \/ RestoreVerbosity
    \/ CompareStep
    \/ AnalyzeEnd

SpecAnalysis == AnalysisInit /\ [][AnalysisNext]_vars

\* -------------------------------------------------- convert_ohlcv_format
\* A data file is the number of its candles; a format's files are a function
\* from the (pair, timeframe, candle type) triples that have a file.
DataFormats == {"json", "feather"}
ConvertTimeframes == <<"1m", "5m">>
\* the values of CandleType, in the order of their strings
CandleTypeValues == <<"futures", "spot">>
\* every triple, sorted by pair, then timeframe, then candle-type value
AllCombs ==
    LET nt == Len(ConvertTimeframes)
        nc == Len(CandleTypeValues)
    IN [k \in 1..(Len(Pairs) * nt * nc) |->
          <<Pairs[((k - 1) \div (nt * nc)) + 1],
            ConvertTimeframes[(((k - 1) \div nc) % nt) + 1],
            CandleTypeValues[((k - 1) % nc) + 1]>>]
CombSets ==
    {S \in SUBSET {AllCombs[k] : k \in 1..Len(AllCombs)} :
        Cardinality(S) <= MaxTriples}
\* config: a key that is absent is <<>>, one that is present is <<value>>
ConvertConfigs ==
    [pairs : {<<>>, <<{Pairs[1]}>>},
     timeframes : {<<>>, <<{ConvertTimeframes[2]}>>},
     candle_types : {<<>>, <<{CandleTypeValues[2]}>>}]
\* lines 291-292
candle_types_of(config) ==
    IF config.candle_types = <<>>
    THEN {CandleTypeValues[i] : i \in 1..Len(CandleTypeValues)}
    ELSE config.candle_types[1]
\* lines 297-303
FilterCombs(combs, config) ==
    {comb \in combs :
        /\ config.pairs # <<>> => comb[1] \in config.pairs[1]
        /\ config.timeframes # <<>> => comb[2] \in config.timeframes[1]
        /\ comb[3] \in candle_types_of(config)}
\* line 305
SortCombs(combs) == SelectSeq(AllCombs, LAMBDA comb : comb \in combs)
\* ohlcv_store and ohlcv_purge on the files of one format
ohlcv_store(fs, comb, data) ==
    [c \in (DOMAIN fs) \cup {comb} |-> IF c = comb THEN data ELSE fs[c]]
ohlcv_purge(fs, comb) == [c \in (DOMAIN fs) \ {comb} |-> fs[c]]

ConvertInit ==
    /\ NormIdle
    /\ TrimIdle
    /\ ReduceIdle
    /\ AnalysisIdle
    /\ c_config \in ConvertConfigs
    /\ convert_from = "json"
    /\ convert_to \in DataFormats
    /\ erase \in BOOLEAN
    /\ \E S \in CombSets : \E src \in [S -> 0..1] :
         files = [f \in DataFormats |->
                    IF f = convert_from THEN src ELSE [c \in {} |-> 0]]
    /\ paircombs = <<>>
    /\ comb_i = 0
    /\ clog = <<>>
    /\ cstatus = "called"

\* lines 286-305: the triples to convert
ListCombs ==
    /\ cstatus = "called"
    /\ paircombs' = SortCombs(FilterCombs(DOMAIN files[convert_from],
                                          c_config))
    /\ comb_i' = 1
    /\ cstatus' = "running"
    /\ UNCHANGED <<c_config, convert_from, convert_to, erase, files, clog,
                   nvars, tvars, rvars, avars>>

\* lines 312-329, one turn of the loop in which nothing raises
\* mutant: the source is purged whatever erase and the formats are
ConvertComb_PurgeAlways ==
    /\ cstatus = "running"
    /\ comb_i <= Len(paircombs)
    /\ LET comb == paircombs[comb_i]
           data == files[convert_from][comb]
           stored == [files EXCEPT
                        ![convert_to] = ohlcv_store(@, comb, data)]
       IN IF data > 0
          THEN /\ files' = [stored EXCEPT
                              ![convert_from] = ohlcv_purge(@, comb)]
               /\ clog' = clog \o <<[op |-> "load", comb |-> comb],
                                    [op |-> "store", comb |-> comb],
                                    [op |-> "purge", comb |-> comb]>>
          ELSE /\ files' = files
               /\ clog' = Append(clog, [op |-> "load", comb |-> comb])
    /\ comb_i' = comb_i + 1
    /\ UNCHANGED <<c_config, convert_from, convert_to, erase, paircombs,
                   cstatus, nvars, tvars, rvars, avars>>
ConvertComb ==
    /\ cstatus = "running"
    /\ comb_i <= Len(paircombs)
    /\ LET comb == paircombs[comb_i]
           data == files[convert_from][comb]
           stored == [files EXCEPT
                        ![convert_to] = ohlcv_store(@, comb, data)]
       IN IF data > 0
          THEN IF erase /\ convert_from # convert_to
               THEN /\ files' = [stored EXCEPT
                                   ![convert_from] = ohlcv_purge(@, comb)]
                    /\ clog' = clog \o <<[op |-> "load", comb |-> comb],
                                         [op |-> "store", comb |-> comb],
                                         [op |-> "purge", comb |-> comb]>>
               ELSE /\ files' = stored
                    /\ clog' = clog \o <<[op |-> "load", comb |-> comb],
                                         [op |-> "store", comb |-> comb]>>
          ELSE /\ files' = files
               /\ clog' = Append(clog, [op |-> "load", comb |-> comb])
    /\ comb_i' = comb_i + 1
    /\ UNCHANGED <<c_config, convert_from, convert_to, erase, paircombs,
                   cstatus, nvars, tvars, rvars, avars>>

\* lines 312-329, a turn of the loop in which the data handler raises in
\* ohlcv_load, ohlcv_store or ohlcv_purge: nothing catches, the call is over
ConvertRaises ==
    /\ cstatus = "running"
    /\ comb_i <= Len(paircombs)
    /\ LET comb == paircombs[comb_i]
           data == files[convert_from][comb]
       IN \E op \in {"load", "store", "purge"} :
            \/ /\ op = "load"
               /\ files' = files
               /\ clog' = clog
            \/ /\ op = "store"
               /\ data > 0
               /\ files' = files
               /\ clog' = Append(clog, [op |-> "load", comb |-> comb])
            \/ /\ op = "purge"
               /\ data > 0
               /\ erase /\ convert_from # convert_to
               /\ files' = [files EXCEPT
                              ![convert_to] = ohlcv_store(@, comb, data)]
               /\ clog' = clog \o <<[op |-> "load", comb |-> comb],
                                    [op |-> "store", comb |-> comb]>>
    /\ cstatus' = "raised"
    /\ UNCHANGED <<c_config, convert_from, convert_to, erase, paircombs,
                   comb_i, nvars, tvars, rvars, avars>>

\* the loop runs out
ConvertReturn ==
    /\ cstatus = "running"
    /\ comb_i > Len(paircombs)
    /\ cstatus' = "returned"
    /\ UNCHANGED <<c_config, convert_from, convert_to, erase, files,
                   paircombs, comb_i, clog, nvars, tvars, rvars, avars>>

ConvertNext == ListCombs \/ ConvertComb \/ ConvertRaises \/ ConvertReturn

SpecConvert == ConvertInit /\ [][ConvertNext]_vars

\* ------------------------------------------------- claims on the normalizer
RawDates == {raw[i][1] : i \in 1..Len(raw)}
RawAt(d) == {i \in 1..Len(raw) : raw[i][1] = d}
SetMax(S) == CHOOSE x \in S : \A y \in S : x >= y
SetMin(S) == CHOOSE x \in S : \A y \in S : x <= y
Normalized == npc \in {"cleaned", "recleaned"}
\* the table ohlcv_fill_up_missing_data was given by the last normalisation
FillInput == IF drop_incomplete THEN DropLast(grouped) ELSE grouped
HasSource(b) ==
    \E i \in 1..Len(FillInput) : Bucket(FillInput[i].date, TimeframeTicks) = b

\* C1: without fill and without drop the normalizer returns exactly one row
\* per distinct input timestamp; its open is the open of the first input row
\* with that timestamp, its high the greatest high, its low the least low, its
\* close the close of the last such row and its volume the greatest volume.
C1_DedupCollapse ==
    (Normalized /\ ~fill_missing /\ ~drop_incomplete) =>
        /\ Len(cleaned) = Cardinality(RawDates)
        /\ {cleaned[k].date : k \in 1..Len(cleaned)} = RawDates
        /\ \A k \in 1..Len(cleaned) :
             LET I == RawAt(cleaned[k].date) IN
             /\ cleaned[k].open = raw[SetMin(I)][2]
             /\ cleaned[k].high = SetMax({raw[i][3] : i \in I})
             /\ cleaned[k].low = SetMin({raw[i][4] : i \in I})
             /\ cleaned[k].close = raw[SetMax(I)][5]
             /\ cleaned[k].volume = SetMax({raw[i][6] : i \in I})

\* two rows share a timestamp and differ in their values, and were merged
C1_Witness ==
    /\ Normalized /\ ~fill_missing /\ ~drop_incomplete
    /\ \E i, j \in 1..Len(raw) :
         i < j /\ raw[i][1] = raw[j][1] /\ raw[i][2] # raw[j][2]
    /\ Len(cleaned) >= 2

\* C2: whatever the flags, the returned table has strictly increasing
\* timestamps (so no duplicates).
C2_StrictlyIncreasing ==
    Normalized =>
        \A i, j \in 1..Len(cleaned) : i < j => cleaned[i].date < cleaned[j].date

\* unsorted raw rows with a duplicate came out as three rows under fill
C2_Witness ==
    /\ Normalized /\ fill_missing /\ ~drop_incomplete
    /\ Len(raw) = 3 /\ raw[1][1] > raw[2][1] /\ raw[2][1] = raw[3][1]
    /\ Len(cleaned) = 3

\* C3: after gap filling, a row of a bucket that held no source row is flat
\* (open = high = low = close), its price is the close of the nearest earlier
\* bucket that held source rows, and its volume is 0.
C3_SynthesizedRows ==
    (Normalized /\ fill_missing) =>
        \A k \in 1..Len(cleaned) :
            ~HasSource(cleaned[k].date) =>
                LET before == {i \in 1..Len(FillInput) :
                                   FillInput[i].date < cleaned[k].date}
                    prior  == CHOOSE i \in before :
                                  \A j \in before :
                                      FillInput[j].date <= FillInput[i].date
                IN /\ before # {}
                   /\ cleaned[k].open = FillInput[prior].close
                   /\ cleaned[k].high = FillInput[prior].close
                   /\ cleaned[k].low = FillInput[prior].close
                   /\ cleaned[k].close = FillInput[prior].close
                   /\ cleaned[k].volume = 0

\* a bucket was synthesized right after a bucket that merged two source rows
\* with different closes
C3_Witness ==
    /\ Normalized /\ fill_missing
    /\ \E k \in 2..Len(cleaned) :
         /\ ~HasSource(cleaned[k].date)
         /\ cleaned[k - 1].open # cleaned[k - 1].close
         /\ cleaned[k].close = cleaned[k - 1].close

\* C4: with gap filling and a non-empty input the returned table is gap-free:
\* consecutive rows are exactly one timeframe apart, the first row is the
\* bucket of the first input row and the last row the bucket of the last
\* retained input row.
C4_GapFree ==
    (Normalized /\ fill_missing /\ raw # <<>>) =>
        /\ \A k \in 1..(Len(cleaned) - 1) :
               cleaned[k + 1].date = cleaned[k].date + TimeframeTicks
        /\ (FillInput = <<>>) <=> (cleaned = <<>>)
        /\ FillInput # <<>> =>
             /\ cleaned[1].date = Bucket(SetMin(RawDates), TimeframeTicks)
             /\ cleaned[Len(cleaned)].date =
                    Bucket(FillInput[Len(FillInput)].date, TimeframeTicks)

\* the last row was dropped and a gap between the retained rows was filled
C4_Witness ==
    /\ Normalized /\ fill_missing /\ drop_incomplete
    /\ Len(FillInput) = 2 /\ Len(cleaned) = 3
    /\ ~HasSource(cleaned[2].date)

\* C5 as stated: for every setting of the flags, cleaning the returned table
\* again with the same flags returns the same table.
C5_Original == (npc = "recleaned") => recleaned = cleaned

\* C5 as amended: without drop_incomplete cleaning the returned table again
\* returns the same table; with drop_incomplete it returns that table without
\* its last row.
C5_IdempotentWithoutDrop ==
    (npc = "recleaned") =>
        /\ ~drop_incomplete => recleaned = cleaned
        /\ drop_incomplete => recleaned = DropLast(cleaned)

\* a filled table with a synthesized row was cleaned again, and so was a
\* table that had lost its last row
C5_Witness ==
    /\ npc = "recleaned" /\ fill_missing /\ ~drop_incomplete
    /\ Len(cleaned) = 3 /\ ~HasSource(cleaned[2].date)
    /\ Len(raw) = 3

\* ------------------------------------------------- claims on the trimming
\* the frame trim_dataframe was given for item k, and the one it returned
TrimIn(k) == preprocessed[k].df
TrimOut(k) == trimmed[k]
Labels(df) == {df.index[i] : i \in 1..Len(df.index)}
\* the row of a frame with a given index label, as a sequence of its values
RowAt(df, label) ==
    LET i == CHOOSE j \in 1..Len(df.index) : df.index[j] = label
    IN [c \in 1..Len(df.cols) |-> df.cols[c].vals[i]]
DateAt(df, i) == df.cols[1].vals[i]
StartBounded == timerange.starttype = "date"
StopBounded == timerange.stoptype = "date"

\* C6: with a nonzero startup count trim_dataframe drops exactly the first
\* startup_candles rows, ignores the window start and still drops the rows
\* dated after a bounded window end; with a zero count it drops exactly the
\* rows dated before a bounded start and those dated after a bounded end
\* (rows dated at a bound stay).  The result is a sub-sequence of the input in
\* the input's order.
C6_TrimDataframe ==
    \A k \in 1..Len(trimmed) :
        LET df   == TrimIn(k)
            out  == TrimOut(k)
            keep == {df.index[i] : i \in
                       {i \in 1..Len(df.index) :
                          /\ startup_candles # 0 => i > startup_candles
                          /\ (startup_candles = 0 /\ StartBounded) =>
                                 DateAt(df, i) >= timerange.startdt
                          /\ StopBounded => DateAt(df, i) <= timerange.stopdt}}
        IN /\ Labels(out) = keep
           /\ \A i, j \in 1..Len(out.index) :
                  i < j => out.index[i] < out.index[j]
           /\ \A l \in Labels(out) : RowAt(out, l) = RowAt(df, l)
           /\ \A c \in 1..Len(df.cols) :
                  /\ out.cols[c].name = df.cols[c].name
                  /\ out.cols[c].dtype = df.cols[c].dtype
                  /\ Len(out.cols[c].vals) = Len(out.index)

\* a startup count of 1 dropped the first row only: a row dated before the
\* bounded window start stayed, and a later row dated after the bounded end
\* went
C6_Witness ==
    /\ startup_candles = 1 /\ StartBounded /\ StopBounded
    /\ Len(trimmed) >= 1
    /\ Len(TrimIn(1).index) = 3
    /\ Len(TrimOut(1).index) = 1
    /\ DateAt(TrimOut(1), 1) < timerange.startdt
    /\ TrimOut(1).index[1] = 1

PairsOf(s) == {s[i].pair : i \in 1..Len(s)}
InSeq(s) == {s[i] : i \in 1..Len(s)}
\* the pairs handled so far whose trimmed frame has rows, in input order
NonEmptyPairs ==
    LET ks == SortedSeqOf({k \in 1..Len(trimmed) : Len(trimmed[k].index) > 0})
    IN [j \in 1..Len(ks) |-> preprocessed[ks[j]].pair]

\* C7: trim_dataframes does not fail on a pair whose frame is empty after
\* trimming: reduce_mem_usage is not called for it, a warning names it, and it
\* is left out of the result; a returned mapping holds exactly the pairs whose
\* trimmed frame has rows.
C7_EmptyAfterTrim ==
    /\ \A k \in 1..Len(trimmed) :
         LET pair == preprocessed[k].pair IN
         IF Len(trimmed[k].index) = 0
         THEN /\ pair \in InSeq(warnings)
              /\ pair \notin InSeq(reduce_calls)
              /\ pair \notin PairsOf(processed)
         ELSE /\ pair \notin InSeq(warnings)
              /\ pair \in InSeq(reduce_calls)
    /\ tstatus = "raised" => Len(trimmed[Len(trimmed)].index) > 0
    /\ tstatus = "returned" =>
         /\ Len(trimmed) = Len(preprocessed)
         /\ [j \in 1..Len(processed) |-> processed[j].pair] = NonEmptyPairs

\* trim_dataframes returned after both pairs lost all their rows to the trim,
\* one of them holding rows before
C7_Witness ==
    /\ tstatus = "returned"
    /\ Len(preprocessed) = 2
    /\ Len(preprocessed[1].df.index) > 0
    /\ warnings = <<preprocessed[1].pair, preprocessed[2].pair>>
    /\ processed = <<>>

\* ------------------------------------------ claims on the footprint reducers
Reduced == rpc \in {"reduced", "reduced2"}

\* C8 as stated: a footprint reducer narrows a numeric column only to a width
\* that holds the column's values: every integer value of the returned frame
\* is the value it was.
C8_NoOverflow ==
    Reduced =>
         \A c \in 1..Len(r_df.cols) :
             r_df.cols[c].dtype \in {"int8", "int16", "int32", "int64"} =>
                 r_out.cols[c].vals = r_df.cols[c].vals

\* C9 as stated: a footprint reducer can be applied to the frame it returned,
\* and then returns that frame with every dtype and value as it was.
C9_Idempotent ==
    /\ r_fn # "none" => rpc # "raised"
    /\ rpc = "reduced2" => r_out2 = r_out

\* C10 as stated: the five candle columns come through the reduction of
\* trim_dataframes with their dtype and values: once trim_dataframes is past
\* a pair whose trimmed frame has rows, its result holds that pair's frame and
\* the candle columns of that frame are those of the trimmed frame.
C10_ProtectedKept ==
    \A k \in 1..Len(trimmed) :
        Len(trimmed[k].index) > 0 =>
            \E e \in InSeq(processed) :
                /\ e.pair = preprocessed[k].pair
                /\ \A c \in 1..Len(trimmed[k].cols) :
                       trimmed[k].cols[c].name \in
                           {"open", "high", "low", "close", "volume"} =>
                               e.df.cols[c] = trimmed[k].cols[c]

\* ------------------------------------------- claims on RecursiveAnalysis
\* the events of a call of start() that runs to its end
ExpectedTrace ==
    LET k == Len(startup_candle) IN
    [j \in 1..(2 * k + 3) |->
        IF j = 2 * k + 3 THEN [ev |-> "compare", kind |-> "", n |-> NoDt]
        ELSE [ev |-> IF j % 2 = 1 THEN "run_start" ELSE "run_end",
              kind |-> IF j <= 2 THEN "full" ELSE "partial",
              n |-> IF j <= 2 THEN NoDt ELSE startup_candle[(j - 1) \div 2]]]
IsPrefix(s, t) == Len(s) <= Len(t) /\ s = SubSeq(t, 1, Len(s))

\* C11: during a call of start() the runs and the comparison happen in the
\* order full run, one partial run per configured startup-candle value in the
\* configured order, comparison: a run starts only when the one before it has
\* ended, the comparison starts only after the last partial run has ended,
\* nothing follows the comparison, and a call that returns has done them all.
C11_RunSequence ==
    /\ IsPrefix(trace, ExpectedTrace)
    /\ a_pc = "analyze" => trace = ExpectedTrace
    /\ outcome = "returned" => trace = ExpectedTrace

\* a call with two or more startup-candle values has returned
C11_Witness ==
    /\ outcome = "returned"
    /\ Len(startup_candle) >= 2
    /\ Len(trace) = 2 * Len(startup_candle) + 3

\* the records of partial_varHolder_array appended by the current call
AppendedNow ==
    LET done == Cardinality({j \in 1..Len(trace) :
                   trace[j].ev = "run_end" /\ trace[j].kind = "partial"})
        len == Len(partial_varHolder_array)
    IN {partial_varHolder_array[j] : j \in (len - done + 1)..len}
PartialEngines == {engines[j] : j \in {i \in 1..Len(engines) :
                                         engines[i].kind = "partial"}}

\* C12: every partial run of a call of start() has the window that ends where
\* the full run's window ends and starts one timeframe step before that end;
\* the partial runs differ in their startup-candle count only.
C12_PartialWindow ==
    LET to == full_varHolder.to_dt
        from == to - timeframe_to_minutes(strategy.timeframe)
    IN /\ \A h \in AppendedNow : h.to_dt = to /\ h.from_dt = from
       /\ \A e \in PartialEngines :
            e.timerange = <<dt_to_timestamp(from), dt_to_timestamp(to)>>
       /\ \A g, h \in AppendedNow :
            [g EXCEPT !.startup_candle = NoDt, !.indicators = <<>>]
                = [h EXCEPT !.startup_candle = NoDt, !.indicators = <<>>]

\* two partial runs of one call are done, and the full run's window is longer
\* than one step
C12_Witness ==
    /\ Cardinality(AppendedNow) >= 2
    /\ Cardinality(PartialEngines) >= 2
    /\ full_varHolder.from_dt
         < full_varHolder.to_dt - timeframe_to_minutes(strategy.timeframe)

\* how often analyze_indicators reported column c of pair p for record k
TimesReported(k, p, c) ==
    Cardinality({j \in 1..Len(reported) :
        reported[j] = [part |-> k, pair |-> p, indicator |-> c]})
ColumnSet == {IndicatorColumns[i] : i \in 1..Len(IndicatorColumns)}
Differs(k, p, c) ==
    full_varHolder.indicators[p][c]
        # partial_varHolder_array[k].indicators[p][c]
\* the records compared so far, the one a loop turn has finished with
ComparedSet == {compared[j] : j \in 1..Len(compared)}

\* C13 as stated: for every compared partial run and every configured pair,
\* each column whose last-row value differs from the baseline's is reported
\* exactly once, and no column with equal values is reported.
C13_Original ==
    \A k \in ComparedSet : \A i \in 1..Len(local_config.pairs) :
      \A c \in ColumnSet :
        TimesReported(k, local_config.pairs[i], c)
            = IF Differs(k, local_config.pairs[i], c) THEN 1 ELSE 0

\* C13 amended: for every compared partial run, each column of the first
\* configured pair whose last-row value differs from the baseline's is
\* reported exactly once and no column of it with equal values is reported;
\* nothing is reported for any other pair.
C13_FirstPairOnly ==
    /\ \A k \in ComparedSet : \A c \in ColumnSet :
         TimesReported(k, local_config.pairs[1], c)
             = IF Differs(k, local_config.pairs[1], c) THEN 1 ELSE 0
    /\ \A j \in 1..Len(reported) :
         /\ reported[j].pair = local_config.pairs[1]
         /\ reported[j].part \in ComparedSet

\* a compared record differs from the baseline in one column of the first
\* pair and not in the other, and in a column of the second pair
C13_Witness ==
    \E k \in ComparedSet : \E c, d \in ColumnSet :
        /\ Differs(k, local_config.pairs[1], c)
        /\ ~Differs(k, local_config.pairs[1], d)
        /\ Differs(k, local_config.pairs[2], c)
        /\ TimesReported(k, local_config.pairs[1], c) = 1

\* the records whose last row equals the baseline's on the first pair
IsZeroDiff(k) == \A c \in ColumnSet : ~Differs(k, local_config.pairs[1], c)
ZeroDiff == {k \in 1..Len(partial_varHolder_array) : IsZeroDiff(k)}

\* C14: analyze_indicators compares the records in the order of the list,
\* each once; a compared record without a differing column is the last one
\* compared; when the call has returned, the compared records are those up to
\* and including the first record without a differing column, or all of them
\* if there is no such record.
C14_StopAtFirstZeroDiff ==
    /\ compared = [j \in 1..Len(compared) |-> j]
    /\ \A k \in ComparedSet :
         IsZeroDiff(k) => (k = Len(compared) /\ a_pc = "ready")
    /\ outcome = "returned" =>
         Len(compared) = IF ZeroDiff = {}
                         THEN Len(partial_varHolder_array)
                         ELSE SetMin(ZeroDiff)

\* a call has returned after the second record showed no difference, and a
\* later record that does differ was not compared
C14_Witness ==
    /\ outcome = "returned"
    /\ ZeroDiff # {}
    /\ Len(compared) = SetMin(ZeroDiff)
    /\ Len(compared) >= 2
    /\ \E k \in 1..Len(partial_varHolder_array) :
         k > Len(compared) /\ k \notin ZeroDiff

\* C15: whenever a call of start() has reduced the verbosity, the verbosity
\* is back to normal once the call is over, whether it returned or a run
\* raised.
C15_VerbosityRestored ==
    a_pc = "ready" => verbosity = "normal"

\* C16: with a freqai identifier configured, the model directory does not
\* exist at the moment the engine of any run, full or partial, is
\* constructed.
C16_NoModelDirAtConstruction ==
    local_config.freqai_identifier =>
        \A j \in 1..Len(engines) : ~engines[j].model_dir

\* with an identifier configured, a partial run's engine has been constructed
\* after the full run of the same call left its models behind, in a second
\* call on the instance
C16_Witness ==
    /\ local_config.freqai_identifier
    /\ starts >= 2
    /\ Len(engines) >= 2
    /\ engines[Len(engines)].kind = "partial"

\* C17: an engine is constructed without an exchange handle only if no
\* engine was constructed by the analyzer before; every other engine is
\* constructed with the handle the engine before it exposed, so that a single
\* handle serves all runs.
C17_ExchangeReused ==
    /\ handles <= 1
    /\ \A j \in 1..Len(engines) :
         /\ j > 1 => /\ engines[j].given # 0
                     /\ engines[j].given = engines[j - 1].exchange
         /\ engines[j].given = 0 => (j = 1 /\ engines[j].exchange = 1)
         /\ engines[j].given # 0 => engines[j].exchange = engines[j].given

\* in a second call on the instance the full run's engine was constructed
\* with the handle of the first call, and a partial run's engine after it
C17_Witness ==
    /\ starts >= 2
    /\ Len(engines) >= 2
    /\ engines[1].given # 0
    /\ engines[2].given = engines[1].exchange

\* C20: after every call of start() that returned, the first one or a later
\* one on the same instance, partial_varHolder_array holds exactly one record
\* per configured startup-candle value, in the configured order, and the full
\* run of that call was made with the startup-candle count the analyzer was
\* configured with.
C20_StartRepeatable ==
    outcome = "returned" =>
        /\ Len(partial_varHolder_array) = Len(startup_candle)
        /\ \A k \in 1..Len(partial_varHolder_array) :
             partial_varHolder_array[k].startup_candle = startup_candle[k]
        /\ engines[1].startup_candle_count = strategy.configured

\* ------------------------------------------ claims on convert_ohlcv_format
\* the triple passes the filters the configuration has
MatchesFilters(comb) ==
    /\ c_config.pairs = <<>> \/ comb[1] \in c_config.pairs[1]
    /\ c_config.timeframes = <<>> \/ comb[2] \in c_config.timeframes[1]
    /\ c_config.candle_types = <<>> \/ comb[3] \in c_config.candle_types[1]

\* C18: a triple is purged from the source only if erase is set, the two
\* formats differ, the triple passes the configured pair, timeframe and
\* candle-type filters and its data was stored in the target before; a triple
\* that does not pass the filters is never loaded, stored or purged.
C18_PurgeAfterStore ==
    /\ \A j \in 1..Len(clog) :
         clog[j].op = "purge" =>
            /\ erase
            /\ convert_from # convert_to
            /\ MatchesFilters(clog[j].comb)
            /\ \E i \in 1..(j - 1) :
                 clog[i] = [op |-> "store", comb |-> clog[j].comb]
            /\ clog[j].comb \in DOMAIN files[convert_to]
            /\ files[convert_to][clog[j].comb] > 0
    /\ \A j \in 1..Len(clog) : MatchesFilters(clog[j].comb)

\* a triple was purged while the source holds a triple outside the
\* configured timeframes
C18_Witness ==
    /\ \E j \in 1..Len(clog) : clog[j].op = "purge"
    /\ c_config.timeframes # <<>>
    /\ \E comb \in DOMAIN files[convert_from] : ~MatchesFilters(comb)
    /\ cstatus = "returned"

\* C19: when the data handler raises on one triple, every other triple of
\* the batch is still loaded.
C19_BatchIsolation ==
    cstatus = "raised" =>
        \A k \in 1..Len(paircombs) :
            k # comb_i =>
                \E j \in 1..Len(clog) :
                    clog[j] = [op |-> "load", comb |-> paircombs[k]]

====
